---- MODULE Spec2Model ----
(***************************************************************************)
(* Model of the two command-line scripts of the repository:                *)
(*   agarthan/report_service/push_random_reports.py  (Report Pusher)       *)
(*   dev_scripts/seed_users.py                       (User Seeder)         *)
(* A behaviour is a shell session that runs one of the two scripts.  The   *)
(* pusher is run once with arbitrary arguments against an HTTP server; the *)
(* seeder is run up to MaxRuns times against one PostgreSQL database.      *)
(***************************************************************************)
EXTENDS Integers, Sequences, FiniteSets, TLC

(* ------------------------------ bounds --------------------------------- *)
MaxCount == 2
MaxCatLen == 2
MaxSevLen == 1
MaxRuns == 2

(* ------------------------- generic helpers ----------------------------- *)
SeqsUpTo(S, n) == UNION {[1..k -> S] : k \in 0..n}

Range(s) == {s[i] : i \in 1..Len(s)}

(* ===================== Report Pusher: pure functions =================== *)

\* characters an argument string is built from
CatChars == {",", " ", "1", "x"}
SevChars == {",", " ", "a"}
Digits == {"1"}

DigitVal(c) == IF c = "1" THEN 1 ELSE 0

\* str.split(","): the fields between the commas, empty fields kept
RECURSIVE SplitAcc(_, _, _)
SplitAcc(raw, cur, acc) ==
    IF raw = <<>> THEN Append(acc, cur)
    ELSE IF Head(raw) = "," THEN SplitAcc(Tail(raw), <<>>, Append(acc, cur))
    ELSE SplitAcc(Tail(raw), Append(cur, Head(raw)), acc)

Split(raw) == SplitAcc(raw, <<>>, <<>>)

\* str.strip(): leading and trailing blanks removed
RECURSIVE LStrip(_)
LStrip(s) == IF s # <<>> /\ Head(s) = " " THEN LStrip(Tail(s)) ELSE s

RECURSIVE RStrip(_)
RStrip(s) ==
    IF s # <<>> /\ s[Len(s)] = " " THEN RStrip(SubSeq(s, 1, Len(s) - 1)) ELSE s

Strip(s) == RStrip(LStrip(s))

\* int(part) succeeds on a non-empty run of digits and raises ValueError otherwise
IsInt(part) == part # <<>> /\ \A i \in 1..Len(part) : part[i] \in Digits

RECURSIVE ToInt(_)
ToInt(part) ==
    IF part = <<>> THEN 0
    ELSE 10 * ToInt(SubSeq(part, 1, Len(part) - 1)) + DigitVal(part[Len(part)])

\* parse_int_list: the loop over the fields; err is the raised ValueError
RECURSIVE ParseParts(_, _)
ParseParts(parts, values) ==
    IF parts = <<>> THEN [err |-> FALSE, values |-> values]
    ELSE LET part == Strip(Head(parts)) IN
         IF part = <<>> THEN ParseParts(Tail(parts), values)
         ELSE IF IsInt(part) THEN ParseParts(Tail(parts), Append(values, ToInt(part)))
         ELSE [err |-> TRUE, values |-> <<>>]

parse_int_list(raw) ==
    LET r == ParseParts(Split(raw), <<>>) IN
    IF r.err THEN r
    ELSE IF r.values = <<>> THEN [err |-> TRUE, values |-> <<>>]
    ELSE r

\* [s.strip() for s in args.severities.split(",") if s.strip()]
RECURSIVE StripNonEmpty(_)
StripNonEmpty(parts) ==
    IF parts = <<>> THEN <<>>
    ELSE LET part == Strip(Head(parts)) IN
         IF part = <<>> THEN StripNonEmpty(Tail(parts))
         ELSE <<part>> \o StripNonEmpty(Tail(parts))

parse_severities(raw) == StripNonEmpty(Split(raw))

\* probabilities are kept in tenths: 7 stands for 0.7
RateOk(rate) == 0 <= rate /\ rate <= 10

\* random.random() < rate, random.random() in [0, 1)
Bernoulli(rate) ==
    IF rate <= 0 THEN {FALSE} ELSE IF rate >= 10 THEN {TRUE} ELSE BOOLEAN

\* what one call of post_report can do: return (True, status, raw), return
\* (False, code, raw) on HTTPError, return (False, None, str) on URLError, or
\* let the socket timeout of a stalled response escape as TimeoutError
Outcomes == {"ok", "http_error", "url_error", "timeout"}

post_report_raises(outcome) == outcome = "timeout"

post_report_ok(outcome) == outcome = "ok"

(* ============================= state =================================== *)
VARIABLES
    prog,        \* which script the session runs: "pusher" or "seeder"
    \* ---- Report Pusher
    p_pc,        \* position of the pusher process
    args,        \* parsed command line (argparse.Namespace)
    categories,  \* main: categories
    severities,  \* main: severities
    idx,         \* main: loop index
    successes,   \* main: successes
    failures,    \* main: failures
    payload,     \* main: payload of the current iteration
    stdout,      \* lines printed by the pusher
    net,         \* HTTP requests the server side has seen, in order
    slept,       \* number of time.sleep calls
    p_exit,      \* exit code of the pusher process, -1 while running
    \* ---- User Seeder
    s_pc,        \* position of the seeder process
    s_args,      \* command line and environment of the current run
    users,       \* main: the normalized user rows, one hashed password each
    conn,        \* "none", "open" or "closed"
    connects,    \* psycopg2.connect calls of the current run
    txn,         \* uncommitted table contents of the open transaction
    db,          \* committed table contents
    written,     \* tables the current transaction has written, in order
    s_exit,      \* exit code of the current seeder run, -1 while running
    runs,        \* seeder runs started so far
    db_start,    \* committed table contents when the current run started
    commits,     \* seeder runs that have committed so far
    s_err        \* why the current run's insertion failed: "none", "env", "constraint"

pvars == <<p_pc, args, categories, severities, idx, successes, failures,
           payload, stdout, net, slept, p_exit>>

svars == <<s_pc, s_args, users, conn, connects, txn, db, written, s_exit,
           runs, db_start, commits, s_err>>

vars == <<prog, pvars, svars>>

(* ====================== Report Pusher: process ========================= *)

TokenValues == BOOLEAN            \* TRUE: a non-empty token from flag or environment
CountValues == (-1)..MaxCount
PublicRates == {-1, 0, 10, 11}
AnonRates == {-1, 2, 11}
SleepValues == {0, 1}

ArgsSpace ==
    [token : TokenValues, count : CountValues,
     categories : SeqsUpTo(CatChars, MaxCatLen),
     severities : SeqsUpTo(SevChars, MaxSevLen),
     public_rate : PublicRates, anon_rate : AnonRates,
     sleep : SleepValues, dry_run : BOOLEAN]

NoArgs ==
    [token |-> FALSE, count |-> 0, categories |-> <<>>, severities |-> <<>>,
     public_rate |-> 0, anon_rate |-> 0, sleep |-> 0, dry_run |-> FALSE]

NoPayload ==
    [severity |-> <<>>, report_categories_id |-> 0,
     is_public |-> FALSE, is_anon |-> FALSE]

\* random_report plus the two Bernoulli draws of the loop body
Payloads(cats, sevs, a) ==
    [severity : Range(sevs), report_categories_id : Range(cats),
     is_public : Bernoulli(a.public_rate), is_anon : Bernoulli(a.anon_rate)]

\* for idx in range(1, args.count + 1): the loop is over once idx exceeds count
LoopDone_OffByOne(i, count) == i >= count

LoopDone(i, count) == i > count

\* if args.dry_run: print and continue
IsDryRun_Ignored(a) == FALSE

IsDryRun(a) == a.dry_run

\* return 0 if failures == 0 else 1
ExitCode_AlwaysZero(failed) == 0

ExitCode(failed) == IF failed = 0 THEN 0 ELSE 1

PusherInit(a, pc) ==
    /\ p_pc = pc
    /\ args = a
    /\ categories = <<>>
    /\ severities = <<>>
    /\ idx = 0
    /\ successes = 0
    /\ failures = 0
    /\ payload = NoPayload
    /\ stdout = <<>>
    /\ net = <<>>
    /\ slept = 0
    /\ p_exit = -1

PusherExit(code) ==
    /\ p_pc' = "exited"
    /\ p_exit' = code

\* parse_args: argparse, then the token and count checks; parser.error exits 2
ParseArgsReject ==
    /\ prog = "pusher"
    /\ p_pc = "parse_args"
    /\ (~args.token \/ args.count <= 0)
    /\ PusherExit(2)
    /\ UNCHANGED <<args, categories, severities, idx, successes, failures,
                   payload, stdout, net, slept>>
    /\ UNCHANGED svars
    /\ UNCHANGED prog

ParseArgsAccept ==
    /\ prog = "pusher"
    /\ p_pc = "parse_args"
    /\ args.token
    /\ args.count > 0
    /\ p_pc' = "main"
    /\ UNCHANGED <<args, categories, severities, idx, successes, failures,
                   payload, stdout, net, slept, p_exit>>
    /\ UNCHANGED svars
    /\ UNCHANGED prog

MainRejects_NoRateCheck(a) ==
    \/ parse_int_list(a.categories).err
    \/ parse_severities(a.severities) = <<>>

\* main up to the loop: some check between the parsing and the loop fails
MainRejects(a) ==
    \/ parse_int_list(a.categories).err
    \/ parse_severities(a.severities) = <<>>
    \/ ~RateOk(a.public_rate)
    \/ ~RateOk(a.anon_rate)

MainValidateReject ==
    /\ prog = "pusher"
    /\ p_pc = "main"
    /\ MainRejects(args)
    /\ stdout' = Append(stdout, [kind |-> "error", idx |-> 0])
    /\ PusherExit(2)
    /\ UNCHANGED <<args, categories, severities, idx, successes, failures,
                   payload, net, slept>>
    /\ UNCHANGED svars
    /\ UNCHANGED prog

MainValidateAccept ==
    /\ prog = "pusher"
    /\ p_pc = "main"
    /\ ~MainRejects(args)
    /\ categories' = parse_int_list(args.categories).values
    /\ severities' = parse_severities(args.severities)
    /\ successes' = 0
    /\ failures' = 0
    /\ idx' = 1
    /\ p_pc' = "loop"
    /\ UNCHANGED <<args, payload, stdout, net, slept, p_exit>>
    /\ UNCHANGED svars
    /\ UNCHANGED prog

\* one loop iteration under --dry-run: print the payload and continue
DryRunIteration ==
    /\ prog = "pusher"
    /\ p_pc = "loop"
    /\ ~LoopDone(idx, args.count)
    /\ IsDryRun(args)
    /\ \E pl \in Payloads(categories, severities, args) : payload' = pl
    /\ stdout' = Append(stdout, [kind |-> "dry", idx |-> idx])
    /\ idx' = idx + 1
    /\ UNCHANGED <<p_pc, args, categories, severities, successes, failures,
                   net, slept, p_exit>>
    /\ UNCHANGED svars
    /\ UNCHANGED prog

\* one live loop iteration: post_report, the tally, the status line, the sleep
PostIteration ==
    /\ prog = "pusher"
    /\ p_pc = "loop"
    /\ ~LoopDone(idx, args.count)
    /\ ~IsDryRun(args)
    /\ \E pl \in Payloads(categories, severities, args) : payload' = pl
    /\ \E outcome \in Outcomes :
          /\ net' = Append(net, [idx |-> idx, result |-> outcome])
          /\ IF post_report_raises(outcome)
             THEN \* the exception leaves main: traceback, exit status 1
                  /\ PusherExit(1)
                  /\ UNCHANGED <<successes, failures, stdout, slept, idx>>
             ELSE /\ IF post_report_ok(outcome)
                     THEN /\ successes' = successes + 1
                          /\ failures' = failures
                          /\ stdout' = Append(stdout, [kind |-> "queued", idx |-> idx])
                     ELSE /\ failures' = failures + 1
                          /\ successes' = successes
                          /\ stdout' = Append(stdout, [kind |-> "failed", idx |-> idx])
                  /\ slept' = IF args.sleep > 0 /\ idx < args.count
                              THEN slept + 1 ELSE slept
                  /\ idx' = idx + 1
                  /\ UNCHANGED <<p_pc, p_exit>>
    /\ UNCHANGED <<args, categories, severities>>
    /\ UNCHANGED svars
    /\ UNCHANGED prog

\* after the loop: the tally line and the exit code
Finish ==
    /\ prog = "pusher"
    /\ p_pc = "loop"
    /\ LoopDone(idx, args.count)
    /\ stdout' = Append(stdout, [kind |-> "done", idx |-> 0])
    /\ PusherExit(ExitCode(failures))
    /\ UNCHANGED <<args, categories, severities, idx, successes, failures,
                   payload, net, slept>>
    /\ UNCHANGED svars
    /\ UNCHANGED prog

PusherNext ==
    \/ ParseArgsReject
    \/ ParseArgsAccept
    \/ MainValidateReject
    \/ MainValidateAccept
    \/ DryRunIteration
    \/ PostIteration
    \/ Finish

(* ======================= User Seeder: seed data ======================== *)

ROLES ==
    << [role_id |-> 0, name |-> "user"],
       [role_id |-> 1, name |-> "staff"] >>

DEPARTMENTS ==
    << [department_id |-> 1, name |-> "Field Operations"] >>

REPORT_CATEGORIES ==
    << [report_categories_id |-> 1, name |-> "Infrastructure", department_id |-> 1] >>

\* created_at "2025-01-01T00:00:00Z" is kept as its text before the zone
\* designator and the designator itself
SeedCreatedAt == [text |-> "2025-01-01T00:00:00", zone |-> "Z"]

USERS ==
    << [user_id |-> 1, email |-> "normal.user@example.com",
        password |-> "Password123!", name |-> "Normal User",
        is_active |-> TRUE, created_at |-> SeedCreatedAt,
        role_id |-> 0, department_id |-> 0],
       [user_id |-> 2, email |-> "staff.user@example.com",
        password |-> "StaffPass123!", name |-> "Staff User",
        is_active |-> TRUE, created_at |-> SeedCreatedAt,
        role_id |-> 1, department_id |-> 1] >>

(* ===================== User Seeder: pure functions ===================== *)

MinCost == 4
MaxCost == 31

CostRejected_OffByOne(cost) == cost < MinCost - 1 \/ cost > MaxCost + 1

\* the cost check at the top of main
CostRejected(cost) == cost < MinCost \/ cost > MaxCost

\* validate_dependencies: None when both imports succeeded
validate_dependencies(a) ==
    IF ~a.bcrypt THEN "Missing dependency: bcrypt"
    ELSE IF ~a.psycopg2 THEN "Missing dependency: psycopg2"
    ELSE "None"

\* parse_timestamp: fallback for a missing value, a trailing Z becomes +00:00
NoTimestamp == [text |-> "", zone |-> ""]

parse_timestamp(raw, fallback) ==
    IF raw = NoTimestamp THEN fallback
    ELSE [text |-> raw.text,
          zone |-> IF raw.zone = "Z" THEN "+00:00" ELSE raw.zone]

\* bcrypt.gensalt draws a fresh random salt on every call
Salts == {1, 2}

hash_password(password, cost, salt) ==
    [plain |-> password, rounds |-> cost, salt |-> salt]

\* normalize_users: one row tuple per seed user; salts[i] is the salt drawn
\* for users[i], now the clock at the start of the call
normalize_users(seed, cost, salts, now) ==
    [i \in 1..Len(seed) |->
        [user_id |-> seed[i].user_id,
         email |-> seed[i].email,
         password |-> hash_password(seed[i].password, cost, salts[i]),
         name |-> seed[i].name,
         is_active |-> seed[i].is_active,
         created_at |-> parse_timestamp(seed[i].created_at, now),
         role_id |-> seed[i].role_id,
         department_id |-> seed[i].department_id]]

\* INSERT ... ON CONFLICT (role_id) DO UPDATE SET name = EXCLUDED.name
UpsertRole(table, r) ==
    IF \E old \in table : old.role_id = r.role_id
    THEN {IF old.role_id = r.role_id THEN [old EXCEPT !.name = r.name] ELSE old
          : old \in table}
    ELSE table \cup {r}

\* INSERT ... ON CONFLICT (department_id) DO UPDATE SET name = EXCLUDED.name
UpsertDepartment(table, d) ==
    IF \E old \in table : old.department_id = d.department_id
    THEN {IF old.department_id = d.department_id
          THEN [old EXCEPT !.name = d.name] ELSE old : old \in table}
    ELSE table \cup {d}

\* INSERT ... ON CONFLICT (report_categories_id) DO UPDATE SET name, department_id
UpsertCategory(table, c) ==
    IF \E old \in table : old.report_categories_id = c.report_categories_id
    THEN {IF old.report_categories_id = c.report_categories_id
          THEN [old EXCEPT !.name = c.name, !.department_id = c.department_id]
          ELSE old : old \in table}
    ELSE table \cup {c}

UserConflict_PlainInsert(table, u) == FALSE

\* INSERT ... ON CONFLICT (email) DO UPDATE SET every column but user_id, email
UserConflict(table, u) == \E old \in table : old.email = u.email

\* the arbiter is the email index only: a row that collides on user_id with a
\* row of another email is a unique violation
UserViolation(table, u) ==
    /\ ~UserConflict(table, u)
    /\ \E old \in table : old.user_id = u.user_id

UpsertUser(table, u) ==
    IF UserConflict(table, u)
    THEN {IF old.email = u.email
          THEN [old EXCEPT !.password = u.password, !.name = u.name,
                           !.is_active = u.is_active,
                           !.created_at = u.created_at,
                           !.role_id = u.role_id,
                           !.department_id = u.department_id]
          ELSE old : old \in table}
    ELSE table \cup {u}

\* insert_roles, insert_departments, insert_report_categories: one statement
\* that upserts the rows in list order
RECURSIVE insert_roles(_, _)
insert_roles(table, roles) ==
    IF roles = <<>> THEN table
    ELSE insert_roles(UpsertRole(table, Head(roles)), Tail(roles))

RECURSIVE insert_departments(_, _)
insert_departments(table, departments) ==
    IF departments = <<>> THEN table
    ELSE insert_departments(UpsertDepartment(table, Head(departments)),
                            Tail(departments))

RECURSIVE insert_report_categories(_, _)
insert_report_categories(table, cats) ==
    IF cats = <<>> THEN table
    ELSE insert_report_categories(UpsertCategory(table, Head(cats)), Tail(cats))

\* execute_values over the user rows: the statement raises at the first row
\* that violates a unique index
RECURSIVE insert_users(_, _)
insert_users(table, rows) ==
    IF rows = <<>> THEN [err |-> FALSE, table |-> table]
    ELSE IF UserViolation(table, Head(rows)) THEN [err |-> TRUE, table |-> table]
    ELSE insert_users(UpsertUser(table, Head(rows)), Tail(rows))

(* ======================== User Seeder: process ========================= *)

CostValues == {3, 4, 10, 31, 32}

SeederArgsSpace ==
    [cost : CostValues, bcrypt : BOOLEAN, psycopg2 : BOOLEAN, dry_run : BOOLEAN]

NoSeederArgs == [cost |-> 10, bcrypt |-> TRUE, psycopg2 |-> TRUE, dry_run |-> FALSE]

EmptyDb == [roles |-> {}, departments |-> {}, report_categories |-> {}, users |-> {}]

OldHash == [plain |-> "old", rounds |-> 10, salt |-> 1]
OldCreatedAt == [text |-> "2024-06-01T00:00:00", zone |-> "+00:00"]

\* rows left by an earlier edition of the seed lists
StaleDb ==
    [roles |-> {[role_id |-> 0, name |-> "guest"], [role_id |-> 5, name |-> "admin"]},
     departments |-> {[department_id |-> 1, name |-> "Operations"]},
     report_categories |->
        {[report_categories_id |-> 1, name |-> "Roads", department_id |-> 5]},
     users |->
        {[user_id |-> 7, email |-> "normal.user@example.com", password |-> OldHash,
          name |-> "Old Name", is_active |-> FALSE, created_at |-> OldCreatedAt,
          role_id |-> 1, department_id |-> 1]}]

\* user_id 1 already belongs to another email
ClashDb ==
    [EmptyDb EXCEPT !.users =
        {[user_id |-> 1, email |-> "someone.else@example.com", password |-> OldHash,
          name |-> "Someone Else", is_active |-> TRUE, created_at |-> OldCreatedAt,
          role_id |-> 0, department_id |-> 0]}]

InitialDbs == {EmptyDb, StaleDb, ClashDb}

SeederInit(d) ==
    /\ s_pc = "shell"
    /\ s_args = NoSeederArgs
    /\ users = <<>>
    /\ conn = "none"
    /\ connects = 0
    /\ txn = EmptyDb
    /\ db = d
    /\ written = <<>>
    /\ s_exit = -1
    /\ runs = 0
    /\ db_start = d
    /\ commits = 0
    /\ s_err = "none"

SeederExit(code) ==
    /\ s_pc' = "exited"
    /\ s_exit' = code

\* the shell starts the script: a fresh process against the same database
StartRun ==
    /\ prog = "seeder"
    /\ s_pc \in {"shell", "exited"}
    /\ runs < MaxRuns
    /\ \E a \in SeederArgsSpace : s_args' = a
    /\ runs' = runs + 1
    /\ s_pc' = "cost"
    /\ users' = <<>>
    /\ conn' = "none"
    /\ connects' = 0
    /\ txn' = EmptyDb
    /\ written' = <<>>
    /\ s_exit' = -1
    /\ db_start' = db
    /\ s_err' = "none"
    /\ UNCHANGED <<db, commits>>
    /\ UNCHANGED pvars
    /\ UNCHANGED prog

\* main: the bcrypt cost check
CheckCost ==
    /\ prog = "seeder"
    /\ s_pc = "cost"
    /\ IF CostRejected(s_args.cost)
       THEN SeederExit(2)
       ELSE s_pc' = "deps" /\ UNCHANGED s_exit
    /\ UNCHANGED <<s_args, users, conn, connects, txn, db, written, runs,
                   db_start, commits, s_err>>
    /\ UNCHANGED pvars
    /\ UNCHANGED prog

\* main: validate_dependencies
CheckDependencies ==
    /\ prog = "seeder"
    /\ s_pc = "deps"
    /\ IF validate_dependencies(s_args) # "None"
       THEN SeederExit(2)
       ELSE s_pc' = "normalize" /\ UNCHANGED s_exit
    /\ UNCHANGED <<s_args, users, conn, connects, txn, db, written, runs,
                   db_start, commits, s_err>>
    /\ UNCHANGED pvars
    /\ UNCHANGED prog

\* main: users = normalize_users(USERS, args.cost)
NormalizeUsers ==
    /\ prog = "seeder"
    /\ s_pc = "normalize"
    /\ \E salts \in [1..Len(USERS) -> Salts] :
          users' = normalize_users(USERS, s_args.cost, salts,
                                   [text |-> "now", zone |-> "+00:00"])
    /\ s_pc' = "mode"
    /\ UNCHANGED <<s_args, conn, connects, txn, db, written, s_exit, runs,
                   db_start, commits, s_err>>
    /\ UNCHANGED pvars
    /\ UNCHANGED prog

\* main: --dry-run prints the four counts and returns 0
DryRunReport ==
    /\ prog = "seeder"
    /\ s_pc = "mode"
    /\ s_args.dry_run
    /\ SeederExit(0)
    /\ UNCHANGED <<s_args, users, conn, connects, txn, db, written, runs,
                   db_start, commits, s_err>>
    /\ UNCHANGED pvars
    /\ UNCHANGED prog

\* main: psycopg2.connect; a new connection starts a transaction on first use
Connect ==
    /\ prog = "seeder"
    /\ s_pc = "mode"
    /\ ~s_args.dry_run
    /\ connects' = connects + 1
    /\ \E reachable \in BOOLEAN :
          IF reachable
          THEN /\ conn' = "open"
               /\ txn' = db
               /\ s_pc' = "roles"
               /\ UNCHANGED s_exit
          ELSE /\ SeederExit(2)
               /\ UNCHANGED <<conn, txn>>
    /\ UNCHANGED <<s_args, users, db, written, runs, db_start, commits, s_err>>
    /\ UNCHANGED pvars
    /\ UNCHANGED prog

InsertFailed_Autocommit(cause) ==
    /\ db' = txn
    /\ txn' = EmptyDb
    /\ conn' = "closed"
    /\ s_err' = cause
    /\ SeederExit(1)
    /\ UNCHANGED <<written, commits>>

InsertFailed_NoFinally(cause) ==
    /\ txn' = EmptyDb
    /\ s_err' = cause
    /\ SeederExit(1)
    /\ UNCHANGED <<conn, db, written, commits>>

\* an exception inside `with conn`: rollback, "Insert failed", finally
\* conn.close(), return 1
InsertFailed(cause) ==
    /\ txn' = EmptyDb
    /\ conn' = "closed"
    /\ s_err' = cause
    /\ SeederExit(1)
    /\ UNCHANGED <<db, written, commits>>

InsertRoles_Skipped ==
    /\ prog = "seeder"
    /\ s_pc = "roles"
    /\ s_pc' = "departments"
    /\ UNCHANGED <<s_args, users, conn, connects, txn, db, written, s_exit,
                   runs, db_start, commits, s_err>>
    /\ UNCHANGED pvars
    /\ UNCHANGED prog

\* the four statements of the transaction, in program order; each of them can
\* raise because the server or the link failed
InsertRoles ==
    /\ prog = "seeder"
    /\ s_pc = "roles"
    /\ \E ok \in BOOLEAN :
          IF ok
          THEN /\ txn' = [txn EXCEPT !.roles = insert_roles(txn.roles, ROLES)]
               /\ written' = Append(written, "roles")
               /\ s_pc' = "departments"
               /\ UNCHANGED <<conn, db, s_exit, commits, s_err>>
          ELSE InsertFailed("env")
    /\ UNCHANGED <<s_args, users, connects, runs, db_start>>
    /\ UNCHANGED pvars
    /\ UNCHANGED prog

InsertDepartments ==
    /\ prog = "seeder"
    /\ s_pc = "departments"
    /\ \E ok \in BOOLEAN :
          IF ok
          THEN /\ txn' = [txn EXCEPT !.departments =
                              insert_departments(txn.departments, DEPARTMENTS)]
               /\ written' = Append(written, "departments")
               /\ s_pc' = "report_categories"
               /\ UNCHANGED <<conn, db, s_exit, commits, s_err>>
          ELSE InsertFailed("env")
    /\ UNCHANGED <<s_args, users, connects, runs, db_start>>
    /\ UNCHANGED pvars
    /\ UNCHANGED prog

InsertReportCategories ==
    /\ prog = "seeder"
    /\ s_pc = "report_categories"
    /\ \E ok \in BOOLEAN :
          IF ok
          THEN /\ txn' = [txn EXCEPT !.report_categories =
                              insert_report_categories(txn.report_categories,
                                                       REPORT_CATEGORIES)]
               /\ written' = Append(written, "report_categories")
               /\ s_pc' = "users"
               /\ UNCHANGED <<conn, db, s_exit, commits, s_err>>
          ELSE InsertFailed("env")
    /\ UNCHANGED <<s_args, users, connects, runs, db_start>>
    /\ UNCHANGED pvars
    /\ UNCHANGED prog

InsertUsers ==
    /\ prog = "seeder"
    /\ s_pc = "users"
    /\ LET r == insert_users(txn.users, users) IN
       \E ok \in BOOLEAN :
          IF ~ok THEN InsertFailed("env")
          ELSE IF r.err THEN InsertFailed("constraint")
          ELSE /\ txn' = [txn EXCEPT !.users = r.table]
               /\ written' = Append(written, "users")
               /\ s_pc' = "commit"
               /\ UNCHANGED <<conn, db, s_exit, commits, s_err>>
    /\ UNCHANGED <<s_args, users, connects, runs, db_start>>
    /\ UNCHANGED pvars
    /\ UNCHANGED prog

\* leaving `with conn` without an exception: commit, the four "Inserted" lines,
\* finally conn.close(), return 0; a commit that raises takes the except branch
CommitAndClose ==
    /\ prog = "seeder"
    /\ s_pc = "commit"
    /\ \E ok \in BOOLEAN :
          IF ok
          THEN /\ db' = txn
               /\ txn' = EmptyDb
               /\ conn' = "closed"
               /\ commits' = commits + 1
               /\ SeederExit(0)
               /\ UNCHANGED <<written, s_err>>
          ELSE InsertFailed("env")
    /\ UNCHANGED <<s_args, users, connects, runs, db_start>>
    /\ UNCHANGED pvars
    /\ UNCHANGED prog

SeederNext ==
    \/ StartRun
    \/ CheckCost
    \/ CheckDependencies
    \/ NormalizeUsers
    \/ DryRunReport
    \/ Connect
    \/ InsertRoles
    \/ InsertDepartments
    \/ InsertReportCategories
    \/ InsertUsers
    \/ CommitAndClose

(* ========================== the session ================================ *)

Init ==
    \/ /\ prog = "pusher"
       /\ \E a \in ArgsSpace : PusherInit(a, "parse_args")
       /\ SeederInit(EmptyDb)
    \/ /\ prog = "seeder"
       /\ PusherInit(NoArgs, "idle")
       /\ \E d \in InitialDbs : SeederInit(d)

Next == PusherNext \/ SeederNext

Spec == Init /\ [][Next]_vars

(* ============================ properties =============================== *)

Pusher == prog = "pusher"
Seeder == prog = "seeder"

PusherDone == Pusher /\ p_pc = "exited"
SeederDone == Seeder /\ s_pc = "exited"

Failed(i) == net[i].result # "ok"

Lines(kind) == SelectSeq(stdout, LAMBDA l : l.kind = kind)

Indices(lines) == [i \in 1..Len(lines) |-> lines[i].idx]

UpTo(n) == [i \in 1..n |-> i]

TallyPrinted == \E i \in 1..Len(stdout) : stdout[i].kind = "done"

\* every post_report call of the run returned one of its three results
AllReturned == \A i \in 1..Len(net) : net[i].result \in {"ok", "http_error", "url_error"}

\* C1: requests go out one at a time for the indices 1, 2, ... in order; a
\* live run whose requests all returned (success, HTTP error or transport
\* error) has attempted exactly N deliveries when it ends, with
\* successes + failures = N; a dry-run has printed exactly N payloads, for
\* the indices 1..N in order, and attempted no delivery.
C1_ExactlyNDeliveries ==
    Pusher =>
       /\ \A i \in 1..Len(net) : net[i].idx = i
       /\ (p_pc = "exited" /\ p_exit \in {0, 1} /\ AllReturned) =>
             IF args.dry_run
             THEN /\ Indices(Lines("dry")) = UpTo(args.count)
                  /\ net = <<>>
             ELSE /\ Len(net) = args.count
                  /\ successes + failures = args.count
                  /\ Lines("dry") = <<>>

C1_Witness ==
    /\ PusherDone
    /\ ~args.dry_run
    /\ args.count = 2
    /\ Len(net) = 2
    /\ net[1].result = "http_error"
    /\ net[2].result = "ok"
    /\ successes = 1
    /\ failures = 1

\* C2: a run that passed validation (it entered the loop) ends with exit
\* code 0 or 1; it is 1 exactly when some request failed and 0 exactly when
\* none did, a live run that exits 0 has had all N requests succeed, and no
\* run that attempted a request exits with 2.
C2_ExitCode ==
    PusherDone =>
       /\ (Len(net) > 0 => p_exit # 2)
       /\ (idx >= 1 =>
             /\ p_exit \in {0, 1}
             /\ (p_exit = 1 <=> \E i \in 1..Len(net) : Failed(i))
             /\ (p_exit = 0 /\ ~args.dry_run =>
                    /\ Len(net) = args.count
                    /\ \A i \in 1..Len(net) : net[i].result = "ok"))

C2_Witness ==
    /\ PusherDone
    /\ p_exit = 1
    /\ Len(net) = 2
    /\ net[1].result = "ok"
    /\ net[2].result = "url_error"

\* C3: a request that fails (HTTP error, transport error, or the timeout of
\* a stalled request) is counted as one failure and does not abort the run:
\* a run that attempted a request ends having attempted all N, with every
\* failed request counted and the tally printed.
C3_FailureNeverAborts ==
    (PusherDone /\ Len(net) > 0) =>
       /\ Len(net) = args.count
       /\ failures = Cardinality({i \in 1..Len(net) : Failed(i)})
       /\ TallyPrinted

\* the argument errors of C4, read off the command line
Fields(raw) == Split(raw)

NoValue(raw) == \A i \in 1..Len(Fields(raw)) : Strip(Fields(raw)[i]) = <<>>

NotAnInteger(field) ==
    /\ Strip(field) # <<>>
    /\ \E i \in 1..Len(Strip(field)) : Strip(field)[i] \notin {"1"}

BadArguments(a) ==
    \/ ~a.token
    \/ a.count <= 0
    \/ a.public_rate < 0 \/ a.public_rate > 10
    \/ a.anon_rate < 0 \/ a.anon_rate > 10
    \/ NoValue(a.categories)
    \/ NoValue(a.severities)
    \/ \E i \in 1..Len(Fields(a.categories)) : NotAnInteger(Fields(a.categories)[i])

\* C4: with a missing token, a count <= 0, a rate outside [0,1], a category
\* or severity list without a value, or a category that is not an integer,
\* the run never reaches the loop: no request, no payload line, exit code 2.
C4_ValidationExit2 ==
    (Pusher /\ BadArguments(args)) =>
       /\ p_pc \in {"parse_args", "main", "exited"}
       /\ net = <<>>
       /\ Lines("dry") = <<>>
       /\ idx = 0
       /\ (p_pc = "exited" => p_exit = 2)

C4_Witness ==
    /\ PusherDone
    /\ p_exit = 2
    /\ args.token
    /\ args.count = 2
    /\ args.categories = <<"1">>
    /\ args.severities = <<"a">>
    /\ args.public_rate = 11
    /\ args.anon_rate = 2
    /\ net = <<>>

\* C5: a --dry-run has no external effect.  The pusher sends no request,
\* never sleeps and counts no failure; the seeder opens no connection, starts
\* no transaction and leaves the committed tables as they were when the run
\* started, so a later live run starts from the same database.  A dry-run
\* that got past validation exits 0.
C5_DryRunInvariance ==
    /\ (Pusher /\ args.dry_run) =>
          /\ net = <<>>
          /\ slept = 0
          /\ failures = 0
          /\ (p_pc = "exited" /\ idx >= 1 => p_exit = 0)
    /\ (Seeder /\ s_pc # "shell" /\ s_args.dry_run) =>
          /\ db = db_start
          /\ conn = "none"
          /\ connects = 0
          /\ txn = EmptyDb
          /\ written = <<>>
          /\ (s_pc = "exited" /\ users # <<>> => s_exit = 0)

C5_Witness ==
    /\ SeederDone
    /\ s_args.dry_run
    /\ s_exit = 0
    /\ Len(users) = 2
    /\ db = StaleDb
    /\ runs = 2

AllFour == <<"roles", "departments", "report_categories", "users">>

\* C6: the four inserts run in one transaction.  The committed tables differ
\* from those at the start of the run only after a run that exited 0 having
\* executed all four inserts; a run in which an insert (or the commit) failed
\* exits 1 with the tables as they were; a live run exits 0 only after all
\* four inserts.
C6_AllOrNothing ==
    Seeder =>
       /\ (db # db_start => s_pc = "exited" /\ s_exit = 0 /\ written = AllFour)
       /\ (s_err # "none" => s_pc = "exited" /\ s_exit = 1 /\ db = db_start)
       /\ (s_pc = "exited" /\ s_exit = 0 /\ ~s_args.dry_run => written = AllFour)
       /\ (s_pc = "exited" /\ s_exit = 1 => db = db_start)

C6_Witness ==
    /\ SeederDone
    /\ s_exit = 1
    /\ s_err = "env"
    /\ written = <<"roles", "departments", "report_categories">>
    /\ db = StaleDb

\* C7: no terminated run leaves a connection open: a connection that was
\* opened is closed when the process has exited, and a run that exits with 2
\* (validation or connect failure) never held one.
C7_ConnectionReleased ==
    SeederDone =>
       /\ conn # "open"
       /\ (s_exit = 2 => conn = "none")
       /\ (written # <<>> => conn = "closed")

C7_Witness ==
    /\ SeederDone
    /\ s_exit = 1
    /\ s_err = "constraint"
    /\ conn = "closed"
    /\ connects = 1

\* a user row without its password hash
Visible(u) ==
    [user_id |-> u.user_id, email |-> u.email, name |-> u.name,
     is_active |-> u.is_active, created_at |-> u.created_at,
     role_id |-> u.role_id, department_id |-> u.department_id]

VisibleRows(d) ==
    [roles |-> d.roles, departments |-> d.departments,
     report_categories |-> d.report_categories,
     users |-> {Visible(u) : u \in d.users}]

\* C8: once a run has committed, a further run does not fail on a key
\* conflict, and when it commits the tables hold the same rows as before it,
\* password hashes aside: no row is added and every user keeps its email,
\* name, role, department, active flag and timestamp.
C8_UpsertIdempotent ==
    (Seeder /\ commits >= 1) =>
       /\ s_err # "constraint"
       /\ (s_pc = "exited" /\ s_exit = 0 /\ ~s_args.dry_run /\ commits >= 2) =>
             /\ VisibleRows(db) = VisibleRows(db_start)
             /\ Cardinality(db.users) = Cardinality(db_start.users)
             /\ \A u, v \in db.users : u.email = v.email => u = v

C8_Witness ==
    /\ SeederDone
    /\ commits = 2
    /\ s_exit = 0
    /\ db # db_start
    /\ Cardinality(db.users) = 2

\* C9: a cost outside 4..31 or a missing bcrypt or psycopg2 stops the run
\* with exit code 2 before a password is hashed and before a connection is
\* attempted; a run with both dependencies and a cost in 4..31 gets past the
\* pre-flight checks and hashes the passwords.
C9_PreFlight ==
    /\ (Seeder /\ s_pc # "shell"
          /\ (s_args.cost < 4 \/ s_args.cost > 31
              \/ ~s_args.bcrypt \/ ~s_args.psycopg2)) =>
          /\ users = <<>>
          /\ connects = 0
          /\ conn = "none"
          /\ db = db_start
          /\ (s_pc = "exited" => s_exit = 2)
    /\ (SeederDone /\ s_args.cost >= 4 /\ s_args.cost <= 31
          /\ s_args.bcrypt /\ s_args.psycopg2) =>
          Len(users) = Len(USERS)

C9_Witness ==
    /\ SeederDone
    /\ s_args.cost = 32
    /\ s_args.bcrypt
    /\ s_args.psycopg2
    /\ ~s_args.dry_run
    /\ s_exit = 2
    /\ runs = 2
    /\ commits = 1

Wrote(table) == \E i \in 1..Len(written) : written[i] = table

WrittenRoleIds == IF Wrote("roles") THEN {r.role_id : r \in Range(ROLES)} ELSE {}

WrittenDepartmentIds ==
    IF Wrote("departments") THEN {d.department_id : d \in Range(DEPARTMENTS)} ELSE {}

InTxnOrder == \E k \in 0..Len(AllFour) : written = SubSeq(AllFour, 1, k)

\* C10 as stated: the inserts run in the order roles, departments, report
\* categories, users, and when a table is written every row it references
\* has been written by the same run: each category's department, each seed
\* user's role and each seed user's department.
C10_ReferencesWritten ==
    Seeder =>
       /\ InTxnOrder
       /\ Wrote("report_categories") =>
             \A c \in Range(REPORT_CATEGORIES) : c.department_id \in WrittenDepartmentIds
       /\ Wrote("users") =>
             \A u \in Range(USERS) :
                /\ u.role_id \in WrittenRoleIds
                /\ u.department_id \in WrittenDepartmentIds

\* C10 amended: as above, except that a seed user's department_id is either
\* a department written by the run or 0, the id of no seed department.
C10_ReferencesWrittenOrZero ==
    Seeder =>
       /\ InTxnOrder
       /\ Wrote("report_categories") =>
             \A c \in Range(REPORT_CATEGORIES) : c.department_id \in WrittenDepartmentIds
       /\ Wrote("users") =>
             \A u \in Range(USERS) :
                /\ u.role_id \in WrittenRoleIds
                /\ u.department_id \in WrittenDepartmentIds \cup {0}

C10_Witness ==
    /\ SeederDone
    /\ s_exit = 0
    /\ written = AllFour
    /\ \E u \in db.users : u.department_id = 0 /\ u.name = "Normal User"

====
